---- MODULE Spec2Model ----
(***************************************************************************)
(* Model of "H2 system design/H2_heat_influx.py": the cryogenic hydrogen   *)
(* tank sizing script (class Tank, fA, compute_Qleak, compute_tank_volume  *)
(* and the module-level RUN sweep).                                        *)
(*                                                                         *)
(* Numbers.  The script computes in IEEE doubles; the model computes in    *)
(* fixed point on integer grids, one grid per physical quantity:           *)
(*   pressure      hPa            (101000 Pa = 1010)                        *)
(*   time          s                                                       *)
(*   hours         1/7200 h       (HourScale units per hour)               *)
(*   temperature   one T_increment (6.5e-06 K) per unit                    *)
(*   mass          kg                                                      *)
(*   density       20 kg/m^3                                               *)
(*   volume        1/20 m^3 = 50 l (so that mass = density * volume)       *)
(*   heat leak     W                                                       *)
(*   length        0.1 mm                                                  *)
(* Every division rounds toward zero (TDiv), which is where the model      *)
(* places the rounding of the floating point operations.                   *)
(*                                                                         *)
(* CoolProp (CP.PropsSI) is an external library.  It is modelled by a      *)
(* synthetic para-hydrogen with closed-form integer properties on the      *)
(* saturation curve (SatT_of_P .. dH_dT_P): vapour lighter than liquid,    *)
(* liquid density falling and enthalpy rising with pressure.               *)
(* scipy (opt.root_scalar / brentq, fsolve) is an external library too;    *)
(* it is modelled by its documented contract on the integer grid.          *)
(***************************************************************************)
EXTENDS Integers, Sequences, FiniteSets, TLC

(***************************************************************************)
(* Integer arithmetic helpers (float operators of the script).             *)
(***************************************************************************)
Abs(a) == IF a < 0 THEN -a ELSE a

Sgn(a) == IF a > 0 THEN 1 ELSE IF a < 0 THEN -1 ELSE 0

\* a / b rounded toward zero
TDiv(a, b) == Sgn(a) * Sgn(b) * (Abs(a) \div Abs(b))

\* k * num / den rounded toward zero, without forming k * num
MulDiv(k, num, den) ==
    LET q == TDiv(num, den)
    IN  k * q + TDiv(k * (num - den * q), den)

(***************************************************************************)
(* Bounds of the model (not program constants).                            *)
(***************************************************************************)
\* longest list of vent pressures a sweep is started with
MaxVents == 2

\* cap on the number of iterations of the integrator loop that are explored
MaxSteps == 2000

\* largest vacuum gap (0.1 mm) up to which roots of the heat balance are
\* looked for: 0.8 m
MaxGap == 8000

\* number of lines of tank_results.csv from which on the script is not run
\* again
MaxLines == 8

\* the number of design points of the grid the dashboard shows
MaxPoints == 2

\* the vent pressures (hPa) a sweep list is drawn from: the first and the
\* last of the script's P_vents, one below the initial pressure P0 and one
\* at which the tank starts 98 % full
VentChoices == {1000, 2000, 6000, 10000}

(***************************************************************************)
(* Program constants.                                                      *)
(***************************************************************************)
P0 == 1010

dt == 250

dormancy == 24

stratification_factor == 2

Q_leak_min == 10

Q_leak_max == 1000

T_increment == 1

mass_h2 == 533

MAWP == 12000

P_atm == 1013

\* fixed point of vapour quality and of fill fractions: 1.0 = 1000
FracScale == 10 * 100

\* fixed point of hours: 1 h = 7200
HourScale == 2 * 3600

\* 24 h and the 0.01 h tolerance of the round trip, in hour units
DormancyUnits == dormancy * HourScale

RoundTripTol == HourScale \div 100

SecondsPerHour == 3600

fl_final == 980

(***************************************************************************)
(* The fluid property provider (CoolProp), synthetic.  q is the quality    *)
(* argument: 0 = saturated liquid, 1 = saturated vapour.                   *)
(***************************************************************************)
\* offset of the saturation line: T = P + SatShift (20.28 K at 1010 hPa)
SatShift == 3118990

\* denominator of the density derivatives d(D)/d(P)|T and d(D)/d(T)|P
DerivScale == 400

\* PropsSI('T', 'P', P, 'Q', q, 'ParaHydrogen')
SatT_of_P(P) == P + SatShift

\* PropsSI('P', 'T', T, 'Q', q, 'ParaHydrogen')
SatP_of_T(T) == T - SatShift

\* PropsSI('D', 'P', P, 'Q', q, 'ParaHydrogen')
D_of_P(P, q) ==
    IF q = 1 THEN 1
    ELSE IF P < 4000 THEN 4 ELSE IF P < 9000 THEN 3 ELSE 2

\* PropsSI('D', 'T', T, 'Q', q, 'ParaHydrogen')
D_of_T(T, q) == D_of_P(SatP_of_T(T), q)

\* PropsSI('H', 'P', P, 'Q', q, 'ParaHydrogen')
H_of_P(P, q) == IF q = 1 THEN 12 - (P \div 4000) ELSE 2 + (P \div 3000)

\* PropsSI('H', 'T', T, 'Q', q, 'ParaHydrogen')
H_of_T(T, q) == H_of_P(SatP_of_T(T), q)

\* PropsSI('d(D)/d(P)|T', 'T', T, 'Q', q, ...), times DerivScale
dD_dP_T(T, q) == 1

\* variant of the fluid: above 3000 hPa the liquid grows denser with
\* temperature, so that vapour forms again after it was used up
dD_dT_P_rising(P, q) == IF q = 1 THEN -1 ELSE IF P < 3000 THEN -2 ELSE 2

\* PropsSI('d(D)/d(T)|P', 'P', P, 'Q', q, ...), times DerivScale
dD_dT_P(P, q) == IF q = 1 THEN -1 ELSE -2

\* PropsSI('d(H)/d(P)|T', 'T', T, 'Q', q, ...)
dH_dP_T(T, q) == 0

\* PropsSI('d(H)/d(T)|P', 'P', P, 'Q', q, ...)
dH_dT_P(P, q) == IF q = 1 THEN 1 ELSE 2

(***************************************************************************)
(* fA: tank volume and initial fill fraction from the hydrogen mass.       *)
(***************************************************************************)
fA(mh2, P_vent) ==
    LET rho_l_f == D_of_P(P_vent, 0)
        V_l_fin == TDiv(mh2, rho_l_f)
        V_tot   == TDiv(V_l_fin * FracScale, fl_final)
        rho_l_0 == D_of_P(P_atm, 0)
        V_l_0   == TDiv(mh2, rho_l_0)
        fl_init == TDiv(V_l_0 * FracScale, V_tot)
    IN  [V_tot |-> V_tot, fl_init |-> fl_init]

(***************************************************************************)
(* Tank.__init__: the fields the integrator and the sizing read.           *)
(***************************************************************************)
Tank(material, material2, fill, V_in, p_vent) ==
    LET T0   == SatT_of_P(P0)
        mg0  == TDiv(D_of_T(T0, 1) * V_in * (FracScale - fill), FracScale)
        ml0  == TDiv(D_of_T(T0, 0) * V_in * fill, FracScale)
    IN  [material |-> material, material2 |-> material2,
         fill_ratio |-> fill, Pvent |-> p_vent,
         P0 |-> P0, T0 |-> T0,
         rhol0 |-> D_of_T(T0, 0), rhog0 |-> D_of_T(T0, 1),
         V_in |-> V_in, mg0 |-> mg0, ml0 |-> ml0,
         hg0 |-> H_of_T(T0, 1), hl0 |-> H_of_T(T0, 0),
         x0 |-> TDiv(mg0 * FracScale, mg0 + ml0)]

(***************************************************************************)
(* Tank.maximum_Qin.  Each Python list (P, T, mg, ...) is only ever        *)
(* appended to and read at [-1]; the model keeps the last element of each  *)
(* list and the two list lengths that occur: nP appends to P, T and mg     *)
(* (every iteration), nM appends to ml, x, rhog, rhol, hg, hl, Ps and time *)
(* (the else branch only).                                                 *)
(***************************************************************************)
\* lines 64-75: the lists as created
StartLists(tk) ==
    [P |-> tk.P0, T |-> tk.T0, mg |-> tk.mg0, ml |-> tk.ml0,
     rhog |-> tk.rhog0, rhol |-> tk.rhol0, hg |-> tk.hg0, hl |-> tk.hl0,
     x |-> tk.x0, Ps |-> tk.P0, time |-> 0, nP |-> 0, nM |-> 0]

\* lines 88-91: finite difference of the saturation pressure
dPs_dT(s) ==
    LET T_new == s.T + T_increment
        P_new == SatP_of_T(T_new)
    IN  TDiv(P_new - s.P, T_new - s.T)

\* lines 93-98: entries of the coefficient matrix A.  Row 2 of A is kept
\* multiplied by DerivScale * rhog^2 * rhol^2 (a row scaling leaves the
\* solution of A x = B unchanged), so that its entries are integers.
A21(s) ==
    -((s.mg * s.rhol * s.rhol * dD_dP_T(s.T, 1))
      + (s.ml * s.rhog * s.rhog * dD_dP_T(s.T, 0)))

A22(s) ==
    -((s.mg * s.rhol * s.rhol * dD_dT_P(s.P, 1))
      + (s.ml * s.rhog * s.rhog * dD_dT_P(s.P, 0)))

\* (1/rhog) - (1/rhol), scaled like the rest of row 2
A23(s) == DerivScale * s.rhog * s.rhol * (s.rhol - s.rhog)

A42(s, tk) ==
    (s.ml * dH_dT_P(s.P, 0)) + (s.mg * dH_dT_P(s.P, 1))
    + (((s.ml * dH_dP_T(s.T, 0)) + (s.mg * dH_dP_T(s.T, 1)) - tk.V_in)
       * dPs_dT(s))

A43(s) == -(s.hl - s.hg)

\* variant of the solve in which row 3 of A does not tie the liquid rate to
\* the vapour rate
linalg_solve_norow3(s, tk, Qleak) ==
    LET K == (A21(s) * dPs_dT(s)) + A22(s)
    IN  [den |-> (A42(s, tk) * A23(s)) - (A43(s) * K),
         x0  |-> dPs_dT(s) * Qleak * A23(s),
         x1  |-> Qleak * A23(s),
         x2  |-> -(Qleak * K),
         x3  |-> 0]

\* lines 99-109: np.linalg.solve(A, B) for
\*    A = [[1, -dPs_dT, 0, 0], [A21, A22, A23, 0], [0, 0, 1, 1],
\*         [0, A42, A43, 0]],   B = [0, 0, 0, Qleak]
\* by Cramer's rule: the four unknowns as numerators over the common
\* determinant den.
linalg_solve(s, tk, Qleak) ==
    LET K == (A21(s) * dPs_dT(s)) + A22(s)
    IN  [den |-> (A42(s, tk) * A23(s)) - (A43(s) * K),
         x0  |-> dPs_dT(s) * Qleak * A23(s),
         x1  |-> Qleak * A23(s),
         x2  |-> -(Qleak * K),
         x3  |-> Qleak * K]


\* variant of the loop condition with a cap on the number of iterations
LoopCond_capped(s, tk) == s.P < tk.Pvent /\ s.nP < 1000

\* variants of the loop condition: a do-while loop that always takes the
\* first iteration, and a loop that also stops once the clamp was taken
LoopCond_dowhile(s, tk) == s.P < tk.Pvent \/ s.nP = 0

LoopCond_break(s, tk) == s.P < tk.Pvent /\ s.nP = s.nM

\* line 77: the loop condition
LoopCond(s, tk) == s.P < tk.Pvent

\* variant of the clamp branch in which the temperature list is not
\* appended to
ClampAppend_keepT(s, Pn, Tn) ==
    [s EXCEPT !.P = Pn, !.mg = 0, !.nP = @ + 1]

\* variant of the clamp branch that also advances the time list
ClampAppend_timed(s, Pn, Tn) ==
    [s EXCEPT !.P = Pn, !.T = Tn, !.mg = 0, !.nP = @ + 1,
              !.time = @ + dt]

\* lines 117-118: the branch that clamps the vapour mass; P and T were
\* appended at lines 115-116
ClampAppend(s, Pn, Tn) ==
    [s EXCEPT !.P = Pn, !.T = Tn, !.mg = 0, !.nP = @ + 1]

\* lines 119-128: the branch that advances the masses and the properties
FullAppend(s, Pn, Tn, mgn, mln) ==
    [P |-> Pn, T |-> Tn, mg |-> mgn, ml |-> mln,
     x |-> TDiv(mgn * FracScale, mgn + mln),
     rhog |-> D_of_P(Pn, 1), rhol |-> D_of_P(Pn, 0),
     hg |-> H_of_P(Pn, 1), hl |-> H_of_P(Pn, 0),
     Ps |-> SatP_of_T(Tn), time |-> s.time + dt,
     nP |-> s.nP + 1, nM |-> s.nM + 1]

\* lines 110-113 and 117: the vapour mass the step would give
NextVapour(s, tk, Q) ==
    LET d == linalg_solve(s, tk, Q)
    IN  s.mg + MulDiv(dt, d.x2, d.den)

\* lines 78-128: one iteration of the loop
LoopBody(s, tk, Q) ==
    LET d   == linalg_solve(s, tk, Q)
        Pn  == s.P + MulDiv(dt, d.x0 * stratification_factor, d.den)
        Tn  == SatT_of_P(Pn)
        mgn == s.mg + MulDiv(dt, d.x2, d.den)
        mln == s.ml + MulDiv(dt, d.x3, d.den)
    IN  IF mgn <= 0 THEN ClampAppend(s, Pn, Tn)
        ELSE FullAppend(s, Pn, Tn, mgn, mln)

\* line 130: np.array(time) / 3600, in hour units
ToHours(t) == MulDiv(HourScale, t, SecondsPerHour)

\* variant of the returned value: the dormancy target minus the elapsed
\* hours
ReturnValue_remaining(s) == DormancyUnits - ToHours(s.time)

\* variant of the returned value: the elapsed hours alone
ReturnValue_elapsed(s) == ToHours(s.time)

\* lines 130-132: the value maximum_Qin returns
ReturnValue(s) == ToHours(s.time) - DormancyUnits

(***************************************************************************)
(* State.                                                                  *)
(***************************************************************************)
VARIABLES
    P_vents,     \* the list the sweep iterates over (line 293)
    vi,          \* position of the for loop of line 399 in P_vents
    spc,         \* where the sweep is: "vent", "qleak", "pairs", "done",
                 \* "aborted" (an exception left the script)
    err,         \* the exception that ended the script, or "none"
    V_in,        \* module-level V_in (line 400)
    fill_ratio,  \* module-level fill_ratio (line 400)
    Qmax,        \* module-level Qmax (line 401): [bound, val]
    pair,        \* position of the two material loops (lines 402-403)
    csv,         \* tank_results.csv: [exists, lines]
    result,      \* the tuple compute_tank_volume returned last (line 411)
    solver,      \* how the iteration of fsolve ends in this run (line 221)
    tankh2,      \* the Tank of the running compute_Qleak
    rs,          \* the bracketed search of opt.root_scalar (brentq)
    Qleak,       \* argument of the running maximum_Qin
    lists,       \* the lists of the running maximum_Qin
    ipc,         \* maximum_Qin: "idle", "loop", "returned"
    ret,         \* the value maximum_Qin returned
    dash         \* visualize.py: the loaded tensors and masks, and what the
                 \* last call of update_graph returned

vars ==
    <<P_vents, vi, spc, err, V_in, fill_ratio, Qmax, pair, csv, result,
      solver, tankh2, rs, Qleak, lists, ipc, ret, dash>>

sweepVars ==
    <<P_vents, vi, spc, err, V_in, fill_ratio, Qmax, pair, csv, result,
      solver, dash>>

\* visualize.py before it is loaded: no design point, nothing returned
NoDash == [loaded |-> FALSE]

\* line 221: the ways the iteration of fsolve can end (see fsolve below)
fsolve_ends == {"lowest root", "highest root", "stalled"}

\* sequences over S of length 1 .. n
SeqsUpTo(S, n) == UNION {[1..k -> S] : k \in 1..n}

NoSearch ==
    [phase |-> "idle", a |-> 0, b |-> 0, fa |-> 0, fb |-> 0, m |-> 0,
     converged |-> FALSE, root |-> 0, froot |-> 0, iter |-> 0]

\* before any Tank is constructed
NoTank ==
    [material |-> 0, material2 |-> 0, fill_ratio |-> 0, Pvent |-> 0,
     P0 |-> 0, T0 |-> 0, rhol0 |-> 0, rhog0 |-> 0, V_in |-> 0,
     mg0 |-> 0, ml0 |-> 0, hg0 |-> 0, hl0 |-> 0, x0 |-> 0]

\* before compute_tank_volume has returned
NoResult ==
    [Vt |-> 0, Mt |-> 0, mass_error |-> 0, Vh2 |-> 0, t1 |-> 0, t2 |-> 0,
     dv |-> 0, L_in |-> 0, R_in |-> 0, co2_kg |-> 0, emb_energy |-> 0,
     ang1_w |-> 0, ang2_w |-> 0, p_vent |-> 0, Qleak |-> 0, Qcond |-> 0,
     Qrad |-> 0]

Init ==
    /\ P_vents \in SeqsUpTo(VentChoices, MaxVents)
    /\ vi = 1
    /\ spc = "vent"
    /\ err = "none"
    /\ V_in = 0
    /\ fill_ratio = 0
    /\ Qmax = [bound |-> FALSE, val |-> 0]
    /\ pair = <<0, 0>>
    /\ csv = [exists |-> FALSE, lines |-> <<>>]
    /\ result = NoResult
    /\ solver \in fsolve_ends
    /\ dash = NoDash
    /\ tankh2 = NoTank
    /\ rs = NoSearch
    /\ Qleak = 0
    /\ lists = StartLists(NoTank)
    /\ ipc = "idle"
    /\ ret = 0

(***************************************************************************)
(* Tank.maximum_Qin as steps.                                              *)
(***************************************************************************)
\* lines 77-128: the loop condition holds and one iteration runs
IntStep ==
    /\ ipc = "loop"
    /\ LoopCond(lists, tankh2)
    /\ lists.nP < MaxSteps
    /\ lists' = LoopBody(lists, tankh2, Qleak)
    /\ UNCHANGED <<sweepVars, tankh2, rs, Qleak, ipc, ret>>

\* lines 77, 129-132: the loop condition fails and the function returns
IntReturn ==
    /\ ipc = "loop"
    /\ ~LoopCond(lists, tankh2)
    /\ ret' = ReturnValue(lists)
    /\ ipc' = "returned"
    /\ UNCHANGED <<sweepVars, tankh2, rs, Qleak, lists>>


(***************************************************************************)
(* opt.root_scalar(tankh2.maximum_Qin, bracket=[Q_leak_min, Q_leak_max],   *)
(* method='brentq') on the grid of whole watts.  The search evaluates the  *)
(* objective at both ends of the bracket, raises ValueError when the two   *)
(* values have the same sign, and otherwise narrows the bracket, keeping a *)
(* sign change inside, until it is one grid step wide; it then returns the *)
(* end with the smaller residual, flagged converged.  It may also run out  *)
(* of its iteration budget and return flagged not converged.               *)
(***************************************************************************)
\* the next point the search evaluates
Midpoint(a, b) == (a + b) \div 2

\* the result record once the bracket [a, b] cannot be narrowed
Narrowed(r) ==
    IF Abs(r.fa) <= Abs(r.fb)
    THEN [r EXCEPT !.phase = "done", !.converged = TRUE,
                   !.root = r.a, !.froot = r.fa]
    ELSE [r EXCEPT !.phase = "done", !.converged = TRUE,
                   !.root = r.b, !.froot = r.fb]

\* the bracket after the objective value fm was seen at r.m
Narrow(r, fm) ==
    IF Sgn(fm) = Sgn(r.fa)
    THEN [r EXCEPT !.a = r.m, !.fa = fm, !.iter = @ + 1]
    ELSE [r EXCEPT !.b = r.m, !.fb = fm, !.iter = @ + 1]

\* variant in which the time list outlives the call: the next call goes on
\* from the time the previous call reached
CallMaximumQin_kept(tk, q) ==
    /\ Qleak' = q
    /\ lists' = [StartLists(tk) EXCEPT !.time = lists.time]
    /\ ipc' = "loop"
    /\ ret' = 0

\* lines 64-76: a call of maximum_Qin begins
CallMaximumQin(tk, q) ==
    /\ Qleak' = q
    /\ lists' = StartLists(tk)
    /\ ipc' = "loop"
    /\ ret' = 0

\* the search continues from record r: done, or one more evaluation
Continue(r) ==
    IF r.b - r.a <= 1
    THEN /\ rs' = Narrowed(r)
         /\ UNCHANGED <<Qleak, lists, ipc, ret>>
    ELSE /\ rs' = [r EXCEPT !.phase = "fm", !.m = Midpoint(r.a, r.b)]
         /\ CallMaximumQin(tankh2, Midpoint(r.a, r.b))

\* the objective at the lower end is known; evaluate the upper end
BrentqLower ==
    /\ spc = "qleak" /\ rs.phase = "fa" /\ ipc = "returned"
    /\ rs' = [rs EXCEPT !.phase = "fb", !.fa = ret]
    /\ CallMaximumQin(tankh2, rs.b)
    /\ UNCHANGED <<sweepVars, tankh2>>

\* both ends have the same sign: ValueError, which nothing catches
BrentqSameSign ==
    /\ spc = "qleak" /\ rs.phase = "fb" /\ ipc = "returned"
    /\ Sgn(rs.fa) * Sgn(ret) > 0
    /\ rs' = [rs EXCEPT !.phase = "raised", !.fb = ret]
    /\ err' = "ValueError"
    /\ spc' = "aborted"
    /\ ipc' = "idle"
    /\ UNCHANGED <<dash, solver, P_vents, vi, V_in, fill_ratio, Qmax, pair, csv,
                   result, tankh2, Qleak, lists, ret>>

\* the bracket holds a sign change: a root at an end, or start narrowing
BrentqBracketed ==
    /\ spc = "qleak" /\ rs.phase = "fb" /\ ipc = "returned"
    /\ Sgn(rs.fa) * Sgn(ret) <= 0
    /\ LET r == [rs EXCEPT !.fb = ret]
       IN  IF r.fa = 0
           THEN /\ rs' = [r EXCEPT !.phase = "done", !.converged = TRUE,
                                   !.root = r.a, !.froot = 0]
                /\ UNCHANGED <<Qleak, lists, ipc, ret>>
           ELSE IF r.fb = 0
           THEN /\ rs' = [r EXCEPT !.phase = "done", !.converged = TRUE,
                                   !.root = r.b, !.froot = 0]
                /\ UNCHANGED <<Qleak, lists, ipc, ret>>
           ELSE Continue(r)
    /\ UNCHANGED <<sweepVars, tankh2>>

\* the objective at the midpoint is known: narrow the bracket
BrentqIterate ==
    /\ spc = "qleak" /\ rs.phase = "fm" /\ ipc = "returned"
    /\ IF ret = 0
       THEN /\ rs' = [rs EXCEPT !.phase = "done", !.converged = TRUE,
                                !.root = rs.m, !.froot = 0]
            /\ UNCHANGED <<Qleak, lists, ipc, ret>>
       ELSE Continue(Narrow(rs, ret))
    /\ UNCHANGED <<sweepVars, tankh2>>

\* the iteration budget of the search is used up: the result says
\* converged = False (root_scalar does not raise)
BrentqExhausted ==
    /\ spc = "qleak" /\ rs.phase = "fm" /\ ipc = "returned"
    /\ rs' = [rs EXCEPT !.phase = "done", !.converged = FALSE,
                        !.root = rs.m, !.froot = ret]
    /\ UNCHANGED <<sweepVars, tankh2, Qleak, lists, ipc, ret>>

(***************************************************************************)
(* compute_Qleak.                                                          *)
(***************************************************************************)
\* variant of compute_Qleak that falls back to the upper bracket end
LocalQmax_default(r) ==
    [bound |-> TRUE, val |-> IF r.converged THEN r.root ELSE Q_leak_max]

\* lines 344-349: the local Qmax of compute_Qleak after the if / else
LocalQmax(r) ==
    IF r.converged THEN [bound |-> TRUE, val |-> r.root]
    ELSE [bound |-> FALSE, val |-> 0]


(***************************************************************************)
(* The module-level RUN sweep (lines 398-445).                             *)
(***************************************************************************)
n_mats == 2

\* variant of the nesting of the two material loops: the inner material
\* in the inner loop
NextPair_innerfast(p) ==
    IF p[1] < n_mats THEN <<p[1] + 1, p[2]>>
    ELSE IF p[2] < n_mats THEN <<1, p[2] + 1>>
    ELSE <<0, 0>>

\* lines 402-403: the pair after (i, j) in the two nested zip loops, or
\* <<0, 0>> after the last one
NextPair(p) ==
    IF p[2] < n_mats THEN <<p[1], p[2] + 1>>
    ELSE IF p[1] < n_mats THEN <<p[1] + 1, 1>>
    ELSE <<0, 0>>

\* lines 399-401 up to the first objective evaluation: next vent pressure,
\* fA, and compute_Qleak builds its Tank and enters the bracketed search
SweepVent ==
    /\ spc = "vent"
    /\ vi <= Len(P_vents)
    /\ LET P_vent == P_vents[vi]
           sized  == fA(mass_h2, P_vent)
       IN  /\ V_in' = sized.V_tot
           /\ fill_ratio' = sized.fl_init
           /\ tankh2' = Tank(1, 1, sized.fl_init, sized.V_tot, P_vent)
           /\ CallMaximumQin(Tank(1, 1, sized.fl_init, sized.V_tot, P_vent),
                             Q_leak_min)
    /\ rs' = [NoSearch EXCEPT !.phase = "fa",
                              !.a = Q_leak_min, !.b = Q_leak_max]
    /\ spc' = "qleak"
    /\ UNCHANGED <<dash, solver, P_vents, vi, err, Qmax, pair, csv, result>>

\* lines 344-349 and 401: the search converged, compute_Qleak returns the
\* root and the sweep binds it to Qmax
QleakReturn ==
    /\ spc = "qleak" /\ rs.phase = "done"
    /\ LocalQmax(rs).bound
    /\ Qmax' = LocalQmax(rs)
    /\ spc' = "pairs"
    /\ pair' = <<1, 1>>
    /\ ipc' = "idle"
    /\ UNCHANGED <<dash, solver, P_vents, vi, err, V_in, fill_ratio, csv, result,
                   tankh2, rs, Qleak, lists, ret>>

\* lines 347-349: the search did not converge, the else branch only
\* prints, and "return Qmax" reads a local that was never assigned
QleakUnbound ==
    /\ spc = "qleak" /\ rs.phase = "done"
    /\ ~LocalQmax(rs).bound
    /\ err' = "UnboundLocalError"
    /\ spc' = "aborted"
    /\ ipc' = "idle"
    /\ UNCHANGED <<dash, solver, P_vents, vi, V_in, fill_ratio, Qmax, pair, csv,
                   result, tankh2, rs, Qleak, lists, ret>>

\* line 399: the list of vent pressures is exhausted
SweepDone ==
    /\ spc = "vent"
    /\ vi > Len(P_vents)
    /\ spc' = "done"
    /\ UNCHANGED <<dash, solver, P_vents, vi, err, V_in, fill_ratio, Qmax, pair, csv,
                   result, tankh2, rs, Qleak, lists, ipc, ret>>


(***************************************************************************)
(* Tank database and sizing constants.  Lengths are in units of 0.1 mm,    *)
(* heat flows in W, stresses in hPa, conductivities in the unit named at   *)
(* each constant.                                                          *)
(***************************************************************************)
\* lines 283, 296: the materials in use
materials == <<"Al-7075-T6", "G10">>

\* lines 286-290, 297: density kg/m^3, yield strength hPa (with SF),
\* thermal conductivity 0.1 W/mK, emissivity %, CO2 g/kg, embodied energy
\* 0.01 MJ/kg, fibre ratio in thousandths
mat_properties ==
    << [density |-> 2800, yield |-> 4455000, k |-> 1340, emis |-> 11,
        co2 |-> 7795, ee |-> 10600, fibre |-> 0],
       [density |-> 1900, yield |-> 2682000, k |-> 5, emis |-> 95,
        co2 |-> 15250, ee |-> 36900, fibre |-> 400] >>

\* lines 146, 228: the test for a composite shell
IsComposite(m) ==
    materials[m] = "G10" \/ materials[m] = "Carbon Fibre Woven Prepreg (QI)"

\* 0.8 m
R_in == 8000

\* 0.001 m
t_limit == 10

\* 10 * 1e-3 m
t_mli == 100

\* 0.01 m
dv_initial_guess == 100

\* 300 K in 0.1 K
T_amb == 3000

\* 101325 Pa in hPa
P_amb == 1013

\* 0.035 W/mK in 0.001 W/mK
k_mli == 35

\* 0.015 * 1e-1 W/mK in 0.0001 W/mK
k_vac == 15

\* 0.23 in %
emis_mli == 23

\* 180 kg/m^3
dens_mli == 180

\* 0.4 W in 0.1 W
Q_og_str == 4

\* np.pi in 1/10000
Pi4 == 31416

\* 5.670374419e-8 W/m^2K^4, as W/m^2 per (10 K)^4 in millionths
Sigma6 == 567

\* the upper end of the bracket for the inner length: 10 m
L_bracket_hi == 100000

\* the value volume_equation returns for a length below 2 R_in: 1e6 m^3,
\* in litres
Penalty == 1000 * 1000000

\* t_min = 1000 (m) before the angle loop, in micrometres
t_min_start == 1000 * 1000000

\* the list angle = [0, 90, 0.1] passed to np.cos and np.tan as it is:
\* the entries in tenths, and cos^2 and tan^2 of each entry in 1/10000
angle == <<0, 900, 1>>

cos2 == <<10000, 2008, 9900>>

tan2 == <<0, 39808, 101>>

(***************************************************************************)
(* Tank.volume_equation and the bracketed search for the inner length.     *)
(***************************************************************************)
\* lines 135-140, in litres (V_in is kept in units of 50 l)
volume_equation(tk, l) ==
    LET L_cyl == l - 2 * R_in
        R_dm  == R_in \div 1000
        V     == TDiv(TDiv(Pi4 * R_dm * R_dm, 100) * L_cyl, 100000)
                 + TDiv(4 * Pi4 * R_dm * R_dm * R_dm, 30000)
    IN  IF L_cyl < 0 THEN Penalty ELSE V - tk.V_in * 50

\* line 355: brentq on [a, b] with a sign change inside, narrowed to one
\* grid step; the end with the smaller residual is the root
RECURSIVE brentq_length(_, _, _)
brentq_length(tk, a, b) ==
    LET fa == volume_equation(tk, a)
        fb == volume_equation(tk, b)
        m  == Midpoint(a, b)
        fm == volume_equation(tk, m)
    IN  IF fa = 0 THEN a
        ELSE IF fb = 0 THEN b
        ELSE IF b - a <= 1 THEN (IF Abs(fa) <= Abs(fb) THEN a ELSE b)
        ELSE IF Sgn(fm) = Sgn(fa) THEN brentq_length(tk, m, b)
        ELSE brentq_length(tk, a, m)

(***************************************************************************)
(* The netting thickness loop over the winding angles (lines 151-162 and   *)
(* 230-243): N_theta, N_phi are the membrane loads, best the running       *)
(* [t, alpha]; thickness in micrometres.                                   *)
(***************************************************************************)
netting_thickness(prop, N_theta_p, N_phi_p, i) ==
    LET sigma  == prop.yield \div 100
        t_heli == TDiv(TDiv(N_phi_p, sigma) * 10000, cos2[i])
        t_hoop == TDiv(N_theta_p - MulDiv(tan2[i], N_phi_p, 10000), sigma)
    IN  TDiv((t_heli + t_hoop) * 1000, prop.fibre)

\* variant of the loop that keeps no minimum: the last candidate is
\* returned
angle_loop_last(prop, N_theta_p, N_phi_p, i, best) ==
    [t |-> netting_thickness(prop, N_theta_p, N_phi_p, Len(angle)),
     alpha |-> angle[Len(angle)]]

\* variant of the loop with "t <= t_min": among equal thicknesses the last
\* candidate wins
RECURSIVE angle_loop_lasttie(_, _, _, _, _)
angle_loop_lasttie(prop, N_theta_p, N_phi_p, i, best) ==
    IF i > Len(angle) THEN best
    ELSE LET t == netting_thickness(prop, N_theta_p, N_phi_p, i)
         IN  angle_loop_lasttie(prop, N_theta_p, N_phi_p, i + 1,
                                IF t <= best.t
                                THEN [t |-> t, alpha |-> angle[i]]
                                ELSE best)

RECURSIVE angle_loop(_, _, _, _, _)
angle_loop(prop, N_theta_p, N_phi_p, i, best) ==
    IF i > Len(angle) THEN best
    ELSE LET t == netting_thickness(prop, N_theta_p, N_phi_p, i)
         IN  angle_loop(prop, N_theta_p, N_phi_p, i + 1,
                        IF t < best.t THEN [t |-> t, alpha |-> angle[i]]
                        ELSE best)

\* lines 143-164: [t, alpha], t in units of 0.1 mm
inner_tank_thickness(tk) ==
    LET P_test    == TDiv((MAWP + 200) * 13, 10)
        prop      == mat_properties[tk.material]
        N_theta_p == P_test * R_in
        N_phi_p   == TDiv(P_test * R_in, 2)
        best      == angle_loop(prop, N_theta_p, N_phi_p, 1,
                                [t |-> t_min_start, alpha |-> 0])
    IN  IF IsComposite(tk.material)
        THEN [t |-> TDiv(best.t, 100), alpha |-> best.alpha]
        ELSE [t |-> TDiv(P_test * R_in, prop.yield), alpha |-> 0]


(***************************************************************************)
(* Tank.heat_influx (lines 168-247).  c carries the arguments and locals   *)
(* the nested functions close over: L_in_max, t1, t2 (= t1, line 174),     *)
(* Q_str, Q_in_max and the tank.                                           *)
(***************************************************************************)
\* the value of a float division by a zero resistance
QInf == 1000 * 1000000

\* np.log(a / b) in 1/100000, for a near b
LogRatio(a, b) == TDiv(2 * (a - b) * 100000, a + b)

\* line 169: T_tank = self.T0, in 0.1 K
T_tank(tk) == TDiv(tk.T0 * 65, 1000000)

\* lines 181-188, without the common factor 1 / (2 pi L_in_max)
R_cond_sum(c, dv) ==
    LET r0 == R_in
        r1 == R_in + c.t1
        r2 == R_in + c.t1 + t_mli
        r3 == R_in + c.t1 + t_mli + dv
        r4 == R_in + c.t1 + dv + t_mli + c.t2
    IN  TDiv(LogRatio(r1, r0) * 10, mat_properties[c.tk.material].k)
        + TDiv(LogRatio(r2, r1) * 1000, k_mli)
        + TDiv(LogRatio(r3, r2) * 10000, k_vac)
        + TDiv(LogRatio(r4, r3) * 10, mat_properties[c.tk.material2].k)

\* lines 181-188: conduction through the four layers, in W
Q_cond(c, dv) ==
    LET two_pi_L == TDiv(2 * (Pi4 \div 10) * c.L_in_max, 10000)
        R        == R_cond_sum(c, dv)
    IN  IF R = 0 THEN QInf
        ELSE TDiv((T_amb - T_tank(c.tk)) * two_pi_L * 10, R)

\* lines 191-205: radiation to the outer shell, in W
Q_rad(c, dv) ==
    LET r1    == R_in + c.t1 + t_mli
        r2    == r1 + dv
        A2    == TDiv(TDiv(2 * (Pi4 \div 10) * r2, 10000)
                      * (c.L_in_max + 2 * r2), 100000)
        Ta    == T_amb \div 100
        Tt    == T_tank(c.tk) \div 100
        num   == TDiv(Sigma6 * ((Ta * Ta * Ta * Ta) - (Tt * Tt * Tt * Tt)),
                      1000000)
        denom == TDiv(10000, emis_mli)
                 + TDiv(10000, mat_properties[c.tk.material2].emis) - 100
    IN  TDiv(num * A2, denom)

\* lines 208-211
total_heat_influx(c, dv) == Q_cond(c, dv) + Q_rad(c, dv) + c.Q_str

\* lines 214-215
equation(c, dv) == total_heat_influx(c, dv) - c.Q_in_max

(***************************************************************************)
(* fsolve(equation, dv_initial_guess): an unconstrained search from the    *)
(* initial guess.  When its iteration converges it returns a root of the   *)
(* equation, wherever that root lies (nothing keeps the iterates at        *)
(* dv > 0); when the iteration stalls it returns the iterate it stands on, *)
(* root or not, and reports the failure only in values the script does not *)
(* read.  It raises in neither case.  fsolve is a function of its         *)
(* arguments, but which of these ends its iteration takes is not decided   *)
(* by the script: c.how fixes it for a run of the script as "lowest root", *)
(* "highest root" (the iteration converges, on that root of the equation   *)
(* on the grid) or "stalled" (it ends where a descent on the residual from *)
(* the initial guess stalls).  Without a root every iteration stalls.      *)
(***************************************************************************)
\* the first step of the descent, and the spacing of the points between
\* which roots are looked for: 6.4 mm
fsolve_step == 64

\* the radius the gap is added to (line 192): dv > -InnerRadius(c) keeps
\* the logarithms of lines 186-187 defined
InnerRadius(c) == R_in + c.t1 + t_mli

\* the points between which a sign change of the equation is looked for:
\* every fsolve_step from the axis of the tank to MaxGap, and every grid
\* point within one fsolve_step of dv = 0
ScanPoints(c) ==
    {fsolve_step * k : k \in (-((InnerRadius(c) - 1) \div fsolve_step))
                              .. ((MaxGap \div fsolve_step) - 1)}
    \cup ((-fsolve_step) .. (fsolve_step - 1))

\* the scan point after x
NextScan(x) ==
    IF x >= -fsolve_step /\ x < fsolve_step THEN x + 1 ELSE x + fsolve_step

\* the conduction resistance does not pass through zero between a and b
\* (where it does, Q_cond jumps from -infinity to +infinity: a sign change
\* of the equation that is no root)
NoPole(c, a, b) ==
    /\ R_cond_sum(c, a) # 0
    /\ Sgn(R_cond_sum(c, a)) = Sgn(R_cond_sum(c, b))

\* closing in on a sign change between a and b
RECURSIVE fsolve_close(_, _, _)
fsolve_close(c, a, b) ==
    LET fa == equation(c, a)
        fb == equation(c, b)
        m  == Midpoint(a, b)
    IN  IF Abs(b - a) <= 1 THEN (IF Abs(fa) <= Abs(fb) THEN a ELSE b)
        ELSE IF Sgn(equation(c, m)) = Sgn(fa) THEN fsolve_close(c, m, b)
        ELSE fsolve_close(c, a, m)

\* the roots of the equation on the grid
fsolve_roots(c) ==
    {fsolve_close(c, a, NextScan(a)) :
        a \in {x \in ScanPoints(c) :
                  /\ NoPole(c, x, NextScan(x))
                  /\ Sgn(equation(c, x)) # Sgn(equation(c, NextScan(x)))}}

\* the descent from x with step h: to the neighbour with the smaller
\* residual, closing in when the residual changes sign, halving h when
\* neither neighbour is better, and stalling at h = 1
RECURSIVE fsolve_from(_, _, _)
fsolve_from(c, x, h) ==
    LET f0 == equation(c, x)
        fl == equation(c, x - h)
        fr == equation(c, x + h)
    IN  IF f0 = 0 THEN x
        ELSE IF Sgn(fr) # Sgn(f0) THEN fsolve_close(c, x, x + h)
        ELSE IF Sgn(fl) # Sgn(f0) THEN fsolve_close(c, x - h, x)
        ELSE IF Abs(fr) < Abs(f0) /\ Abs(fr) <= Abs(fl)
             THEN fsolve_from(c, x + h, h)
        ELSE IF Abs(fl) < Abs(f0) THEN fsolve_from(c, x - h, h)
        ELSE IF h > 1 THEN fsolve_from(c, x, h \div 2)
        ELSE x

\* the least and the greatest element of a non-empty set of integers
Lowest(S) == CHOOSE x \in S : \A y \in S : x <= y

Highest(S) == CHOOSE x \in S : \A y \in S : x >= y

\* line 221 on a set of roots
fsolve_among(c, roots) ==
    IF c.how = "stalled" \/ roots = {}
    THEN fsolve_from(c, dv_initial_guess, fsolve_step)
    ELSE IF c.how = "lowest root" THEN Lowest(roots) ELSE Highest(roots)

\* line 221: dv_solution[0]
fsolve(c) == fsolve_among(c, fsolve_roots(c))

\* lines 225-245: the outer shell thickness for gap dv, [t, alpha]
outer_thickness(c, dv) ==
    LET P_test    == P_amb
        prop      == mat_properties[c.tk.material2]
        r         == R_in + c.t1 + dv + t_mli
        N_theta_p == P_test * r
        N_phi_p   == TDiv(P_test * r, 2)
        best      == angle_loop(prop, N_theta_p, N_phi_p, 1,
                                [t |-> t_min_start, alpha |-> 0])
    IN  IF IsComposite(c.tk.material2)
        THEN [t |-> TDiv(best.t, 100), alpha |-> best.alpha]
        ELSE [t |-> TDiv(P_amb * r, prop.yield), alpha |-> 0]

\* variant of the returned tuple that reports the heat flow found at the
\* gap instead of the target
heat_influx_tuple_found(c, dv, o) ==
    [dv |-> dv, t2_min |-> o.t, alpha |-> o.alpha,
     Q_in_max |-> Q_cond(c, dv) + Q_rad(c, dv) + c.Q_str,
     Qcond |-> Q_cond(c, dv), Qrad |-> Q_rad(c, dv)]

\* line 247: the tuple heat_influx returns for gap dv and outer shell o
heat_influx_tuple(c, dv, o) ==
    [dv |-> dv, t2_min |-> o.t, alpha |-> o.alpha,
     Q_in_max |-> c.Q_in_max, Qcond |-> Q_cond(c, dv),
     Qrad |-> Q_rad(c, dv)]

\* lines 223-247: from the solved gap to the returned tuple
heat_influx_from(c, dv) == heat_influx_tuple(c, dv, outer_thickness(c, dv))

\* lines 168-180: the names the nested functions close over, and how the
\* iteration of fsolve ends
heat_influx_closure(tk, L_in_max, Q_str, t1, Qmax_in, how) ==
    [tk |-> tk, L_in_max |-> L_in_max, Q_str |-> Q_str,
     t1 |-> t1, t2 |-> t1, Q_in_max |-> Qmax_in, how |-> how]

\* lines 221-247: the tuple returned in closure c
heat_influx_in(c) == heat_influx_from(c, fsolve(c))

\* variant of heat_influx that solves the gap for the upper end of the
\* bracket of compute_Qleak instead of the heat leak it is given
heat_influx_maxleak(tk, L_in_max, Q_str, t1, Qmax_in, how) ==
    heat_influx_in(heat_influx_closure(tk, L_in_max, Q_str, t1, Q_leak_max, how))

\* lines 168-247
heat_influx(tk, L_in_max, Q_str, t1, Qmax_in, how) ==
    heat_influx_in(heat_influx_closure(tk, L_in_max, Q_str, t1, Qmax_in, how))

(***************************************************************************)
(* Tank dimensions, masses and footprints (lines 250-279).  Radii and      *)
(* lengths are rounded to cm here; volumes in litres, masses in kg.        *)
(***************************************************************************)
\* 8.03 kg/kg in g/kg
mli_co2 == 8030

\* 13.1 kg/kg in g/kg
co2_kevlar == 13100

\* 257 MJ/kg in 0.01 MJ/kg
kevlar_ee == 25700

\* 108.4 MJ/kg in 0.01 MJ/kg
mli_ee == 10840

\* 0.35 in %
grav_idx == 35

\* 2.1 kg in 0.01 kg
og_str_mass == 210

\* 6.2 kg in 0.01 kg
og_lh2 == 620

\* line 311
estimated_mass == TDiv(mass_h2 * 100, grav_idx) - mass_h2

\* lines 404-409: the mass of the support structure for an inner material
str_mass_of(m) ==
    LET og_tank_mass == IF IsComposite(m) THEN 480 + 315 ELSE 840 + 360
    IN  TDiv(estimated_mass * og_str_mass, og_tank_mass + og_lh2)

\* line 410: Q_og_str * sqrt(ratio / ratio), in W
Q_str_of(m) == TDiv(Q_og_str * 1, 10)

\* pi * R^2 * L + (4/3) * pi * R^3 for R, L in cm, in litres
capsule_volume(R, L_cyl) ==
    TDiv(TDiv(Pi4 * R * R, 10000) * L_cyl, 1000)
    + TDiv(MulDiv(Pi4, TDiv(4 * R * R * R, 3), 10000), 1000)

\* 2 * pi * R * L + 4 * pi * R^2 for R, L in cm, in cm^2
capsule_surface(R, L_cyl) ==
    TDiv(2 * Pi4 * R, 10000) * L_cyl + MulDiv(4 * R * R, Pi4, 10000)

\* lines 250-253
total_volume(l, dv, t1, t2) ==
    LET R_out == R_in + dv + t1 + t2 + t_mli
    IN  capsule_volume(TDiv(R_out, 100), TDiv(l - 2 * R_in, 100))

\* surface (cm^2) * thickness (0.1 mm) * density (kg/m^3), in kg
shell_mass(surface, t, density) ==
    TDiv(TDiv(surface * t, 10000) * density, 10000)

\* lines 255-263
total_mass(tk, l, dv, t1, t2) ==
    LET R_out == R_in + dv + t1 + t2 + t_mli
        L_cyl == TDiv(l - 2 * R_in, 100)
        surface_inner == capsule_surface(TDiv(R_in, 100), L_cyl)
        surface_outer == capsule_surface(TDiv(R_out, 100), L_cyl)
    IN  [inner |-> shell_mass(surface_inner, t1,
                              mat_properties[tk.material].density),
         outer |-> shell_mass(surface_outer, t2,
                              mat_properties[tk.material2].density),
         mli   |-> shell_mass(surface_inner, t_mli, dens_mli)]

\* lines 265-271, in kg
kg_co2(tk, mass, mass_str) ==
    TDiv(mass.inner * mat_properties[tk.material].co2
         + mass.outer * mat_properties[tk.material2].co2
         + mass.mli * mli_co2 + mass_str * co2_kevlar, 1000)

\* lines 273-279, in MJ
embodied_energy(tk, mass, mass_str) ==
    TDiv(mass.inner * mat_properties[tk.material].ee
         + mass.outer * mat_properties[tk.material2].ee
         + mass.mli * mli_ee + mass_str * kevlar_ee, 100)

(***************************************************************************)
(* compute_tank_volume (lines 351-380): the tuple it returns.  a carries   *)
(* the arguments, the Tank and how the iteration of fsolve ends; each      *)
(* operator below is the function from one of its locals on.               *)
(***************************************************************************)
\* lines 373-380: the total mass and the returned tuple
tank_tuple(a, L_in, th, t1, h, t2, mass, Mt) ==
    [Vt |-> total_volume(L_in, h.dv, t1, t2), Mt |-> Mt,
     mass_error |-> Mt - estimated_mass - mass_h2,
     Vh2 |-> a.tk.V_in, t1 |-> t1, t2 |-> t2, dv |-> h.dv,
     L_in |-> L_in, R_in |-> R_in,
     co2_kg |-> kg_co2(a.tk, mass, a.str_mass),
     emb_energy |-> embodied_energy(a.tk, mass, a.str_mass),
     ang1_w |-> th.alpha, ang2_w |-> h.alpha, p_vent |-> a.P_vent,
     Qleak |-> h.Q_in_max, Qcond |-> h.Qcond, Qrad |-> h.Qrad]

\* variant of Mt: the dry mass, without the hydrogen
tank_from_mass_dry(a, L_in, th, t1, h, t2, mass) ==
    tank_tuple(a, L_in, th, t1, h, t2, mass,
               mass.inner + mass.outer + mass.mli + a.str_mass)

\* lines 372-373: Mt
tank_from_mass(a, L_in, th, t1, h, t2, mass) ==
    tank_tuple(a, L_in, th, t1, h, t2, mass,
               mass.inner + mass.outer + mass.mli + mass_h2 + a.str_mass)

\* lines 370-371: the volume and the three masses
tank_from_t2(a, L_in, th, t1, h, t2) ==
    tank_from_mass(a, L_in, th, t1, h, t2,
                   total_mass(a.tk, L_in, h.dv, t1, t2))

\* variant without the floor of the outer thickness
tank_from_gap_nofloor(a, L_in, th, t1, h) ==
    tank_from_t2(a, L_in, th, t1, h, h.t2_min)

\* line 368: t2 = max(t2, t_limit)
tank_from_gap(a, L_in, th, t1, h) ==
    tank_from_t2(a, L_in, th, t1, h,
                 IF h.t2_min > t_limit THEN h.t2_min ELSE t_limit)

\* line 367: the vacuum gap and the outer shell
tank_from_t1(a, L_in, th, t1) ==
    tank_from_gap(a, L_in, th, t1,
                  heat_influx(a.tk, L_in, a.Q_str, t1, a.Qmax, a.how))

\* lines 363-365: the inner thickness and its floor
tank_from_length(a, L_in, th) ==
    tank_from_t1(a, L_in, th, IF th.t < t_limit THEN t_limit ELSE th.t)

\* lines 352-363: the Tank, the inner length and the inner thickness
tank_from_args(a) ==
    tank_from_length(a, brentq_length(a.tk, 2 * R_in, L_bracket_hi),
                     inner_tank_thickness(a.tk))

\* lines 351-380
compute_tank_volume(material, material2, Q_str, str_mass, fill, V, P_vent, Qmax_in, how) ==
    tank_from_args([tk |-> Tank(material, material2, fill, V, P_vent),
                    Q_str |-> Q_str, str_mass |-> str_mass,
                    P_vent |-> P_vent, Qmax |-> Qmax_in, how |-> how])

\* lines 429-445: the data row written for a result
csv_row(material, material2, r) ==
    [material |-> materials[material], material2 |-> materials[material2],
     MAWP |-> MAWP, Vt |-> r.Vt, Mt |-> r.Mt, mass_error |-> r.mass_error,
     t1 |-> r.t1, t2 |-> r.t2, dv |-> r.dv, L_in |-> r.L_in,
     Vh2 |-> r.Vh2, R_in |-> r.R_in, co2_kg |-> r.co2_kg,
     emb_energy |-> r.emb_energy, ang1_w |-> r.ang1_w,
     ang2_w |-> r.ang2_w, p_vent |-> r.p_vent, Qleak |-> r.Qleak,
     Qcond |-> r.Qcond, Qrad |-> r.Qrad]


\* the header line of tank_results.csv (lines 440-443)
csv_header == [material |-> "Material Inner", material2 |-> "Material Outer"]

\* lines 429-445: the file after a result is written: created if missing,
\* the header first when it was missing, then the data row
csv_append(file, row) ==
    [exists |-> TRUE,
     lines  |-> IF file.exists THEN Append(file.lines, row)
                ELSE Append(Append(file.lines, csv_header), row)]

\* variant of the write of lines 150 and 232 that applies a safety factor
\* to the yield strength it stores
stored_yield_sf(props, m) ==
    IF IsComposite(m) THEN [props EXCEPT ![m].yield = TDiv(@ * 9, 10)]
    ELSE props

\* lines 150 and 232: self.mat_property[1] = self.mat_property[1].  The
\* Tank holds the very list of mat_properties it was given, so the write
\* goes to the list every later Tank of that material is built from; it
\* runs in the composite branch only.  props is the module's list before
\* the write, the value is the list after it.
stored_yield(props, m) ==
    IF IsComposite(m) THEN [props EXCEPT ![m].yield = props[m].yield]
    ELSE props

\* lines 402-445: one material pair is sized and its row is appended
SizePair ==
    /\ spc = "pairs"
    /\ LET r == compute_tank_volume(pair[1], pair[2], Q_str_of(pair[1]),
                                    str_mass_of(pair[1]), fill_ratio, V_in,
                                    P_vents[vi], Qmax.val, solver)
       IN  /\ result' = r
           /\ csv' = csv_append(csv, csv_row(pair[1], pair[2], r))
    /\ IF NextPair(pair) = <<0, 0>>
       THEN /\ vi' = vi + 1
            /\ spc' = "vent"
            /\ pair' = <<0, 0>>
       ELSE /\ pair' = NextPair(pair)
            /\ UNCHANGED <<vi, spc>>
    /\ UNCHANGED <<dash, solver, P_vents, err, V_in, fill_ratio, Qmax,
                   tankh2, rs, Qleak, lists, ipc, ret>>

Next ==
    \/ SweepVent
    \/ IntStep
    \/ IntReturn
    \/ BrentqLower
    \/ BrentqSameSign
    \/ BrentqBracketed
    \/ BrentqIterate
    \/ BrentqExhausted
    \/ QleakReturn
    \/ QleakUnbound
    \/ SizePair
    \/ SweepDone

Spec == Init /\ [][Next]_vars

(***************************************************************************)
(* compute_tank_volume called on its own: the caller supplies the          *)
(* allowable heat leak Qmax; the tank volume and fill come from fA.        *)
(***************************************************************************)
\* the heat leaks (W) a caller passes
QmaxChoices == {10, 100, 300, 1200, 3000, 10000, 30000, 100000}

InitGap ==
    /\ P_vents \in {<<p>> : p \in VentChoices}
    /\ vi = 1
    /\ spc = "call"
    /\ err = "none"
    /\ V_in = fA(mass_h2, P_vents[1]).V_tot
    /\ fill_ratio = fA(mass_h2, P_vents[1]).fl_init
    /\ Qmax \in {[bound |-> TRUE, val |-> q] : q \in QmaxChoices}
    /\ pair \in (1..n_mats) \X (1..n_mats)
    /\ csv = [exists |-> FALSE, lines |-> <<>>]
    /\ result = NoResult
    /\ solver \in fsolve_ends
    /\ dash = NoDash
    /\ tankh2 = NoTank
    /\ rs = NoSearch
    /\ Qleak = 0
    /\ lists = StartLists(NoTank)
    /\ ipc = "idle"
    /\ ret = 0

\* line 411 alone: one call of compute_tank_volume
CallTankVolume ==
    /\ spc = "call"
    /\ result' = compute_tank_volume(pair[1], pair[2], Q_str_of(pair[1]),
                                     str_mass_of(pair[1]), fill_ratio, V_in,
                                     P_vents[vi], Qmax.val, solver)
    /\ spc' = "called"
    /\ UNCHANGED <<dash, solver, P_vents, vi, err, V_in, fill_ratio, Qmax, pair, csv,
                   tankh2, rs, Qleak, lists, ipc, ret>>

NextGap == CallTankVolume

SpecGap == InitGap /\ [][NextGap]_vars

(***************************************************************************)
(* The script run several times over the same tank_results.csv.  The file  *)
(* is the only state that outlives a run; a run finds it absent, empty, or *)
(* as an earlier run left it.                                              *)
(***************************************************************************)
\* a data row left by an earlier run
OldRow == csv_row(1, 1, NoResult)

\* lines 429-435: tank_results.csv as the first run can find it
FileChoices ==
    {[exists |-> FALSE, lines |-> <<>>],
     [exists |-> TRUE, lines |-> <<>>],
     [exists |-> TRUE, lines |-> <<csv_header, OldRow>>]}

InitFile ==
    /\ P_vents \in {<<p>> : p \in VentChoices}
    /\ vi = 1
    /\ spc = "vent"
    /\ err = "none"
    /\ V_in = 0
    /\ fill_ratio = 0
    /\ Qmax = [bound |-> FALSE, val |-> 0]
    /\ pair = <<0, 0>>
    /\ csv \in FileChoices
    /\ result = NoResult
    /\ solver \in fsolve_ends
    /\ dash = NoDash
    /\ tankh2 = NoTank
    /\ rs = NoSearch
    /\ Qleak = 0
    /\ lists = StartLists(NoTank)
    /\ ipc = "idle"
    /\ ret = 0

\* the script has ended and is started again: every module-level name is
\* bound anew (lines 283-396), the file is as the last run left it
RunAgain ==
    /\ spc \in {"done", "aborted"}
    /\ Len(csv.lines) < MaxLines
    /\ vi' = 1
    /\ spc' = "vent"
    /\ err' = "none"
    /\ V_in' = 0
    /\ fill_ratio' = 0
    /\ Qmax' = [bound |-> FALSE, val |-> 0]
    /\ pair' = <<0, 0>>
    /\ result' = NoResult
    /\ tankh2' = NoTank
    /\ rs' = NoSearch
    /\ Qleak' = 0
    /\ lists' = StartLists(NoTank)
    /\ ipc' = "idle"
    /\ ret' = 0
    /\ UNCHANGED <<P_vents, solver, csv, dash>>

NextFile ==
    \/ Next
    \/ RunAgain

SpecFile == InitFile /\ [][NextFile]_vars

(***************************************************************************)
(* maximum_Qin called directly on a Tank sized by fA, as compute_Qleak     *)
(* builds it (lines 338-341), with a heat leak of the caller's choice.     *)
(***************************************************************************)
\* the heat leaks (W) of a direct call: no heat at all, the two ends of the
\* bracket of compute_Qleak, and a value between them
HeatLeaks == {0, Q_leak_min, 100, Q_leak_max}

InitRun ==
    /\ P_vents \in {<<p>> : p \in VentChoices}
    /\ vi = 1
    /\ spc = "direct"
    /\ err = "none"
    /\ V_in = fA(mass_h2, P_vents[1]).V_tot
    /\ fill_ratio = fA(mass_h2, P_vents[1]).fl_init
    /\ Qmax = [bound |-> FALSE, val |-> 0]
    /\ pair = <<0, 0>>
    /\ csv = [exists |-> FALSE, lines |-> <<>>]
    /\ result = NoResult
    /\ solver = "stalled"
    /\ dash = NoDash
    /\ tankh2 = Tank(1, 1, fill_ratio, V_in, P_vents[1])
    /\ rs = NoSearch
    /\ Qleak \in HeatLeaks
    /\ lists = StartLists(tankh2)
    /\ ipc = "loop"
    /\ ret = 0

NextRun ==
    \/ IntStep
    \/ IntReturn

SpecRun == InitRun /\ [][NextRun]_vars

(***************************************************************************)
(* visualize.py: the Dash callback update_graph over the design grid.  The *)
(* N x M x P grid is kept as its points in row-major order, which is the   *)
(* order np.where lists them in.  Of each point the model keeps the three  *)
(* constraint masks and the cost and GWP per passenger that f_cost and     *)
(* f_gwp give for it; weights are in percent.                              *)
(***************************************************************************)
Points == 1..MaxPoints

\* line 134: np.nan; every cost, GWP and score is >= 0
NaN == -1

\* lines 63-67: the values of the constraint checklist
Checklist == {"integration", "mass", "nox"}

\* lines 50-56: positions of the weight slider, in percent
Weights == {0, 50, 100}

\* lines 149-150: the costs and GWPs of a valid design point
Values == {1, 2}

\* line 206
NoValidText == "No valid designs found with current constraints."

\* line 181
OptimalText == "Optimal Design Score"

\* lines 119-125: the combined mask
valid3d(d, constraints) ==
    [p \in Points |->
        /\ ("integration" \in constraints => d.valid_integration[p])
        /\ ("mass" \in constraints => d.valid_mass[p])
        /\ ("nox" \in constraints => d.valid_NOx[p])]

\* lines 131-150: the entries of the masked points are set to nan, and the
\* arithmetic of f_gwp and f_cost carries the nan into GWP and cost
masked(field, valid) ==
    [p \in Points |-> IF valid[p] THEN field[p] ELSE NaN]

\* np.nanmax and np.nanmin over a field with at least one number
nanmax(f) ==
    CHOOSE m \in {f[p] : p \in Points} \ {NaN} :
        \A p \in Points : f[p] = NaN \/ f[p] <= m

nanmin(f) ==
    IF \A p \in Points : f[p] = NaN THEN NaN
    ELSE CHOOSE m \in {f[p] : p \in Points} \ {NaN} :
             \A p \in Points : f[p] = NaN \/ m <= f[p]

\* lines 153-163: f / nanmax(f) where f has a number, zeros otherwise, as
\* numerators num over one denominator den
normalised(f) ==
    IF \E p \in Points : f[p] # NaN
    THEN [num |-> f, den |-> nanmax(f)]
    ELSE [num |-> [p \in Points |-> 0], den |-> 1]

\* line 166: weight * cost_norm + (1 - weight) * GWP_norm, in units of
\* 1 / (100 * c.den * g.den)
scalar_field(weight, c, g) ==
    [p \in Points |->
        IF c.num[p] = NaN \/ g.num[p] = NaN THEN NaN
        ELSE (weight * c.num[p] * g.den) + ((100 - weight) * g.num[p] * c.den)]

\* lines 172-176 and 205: the first point at the minimum of the field, or
\* 0 for None when the minimum is nan
opt_idx(field) ==
    IF nanmin(field) = NaN THEN 0
    ELSE CHOOSE p \in Points :
             /\ field[p] = nanmin(field)
             /\ \A q \in 1..(p - 1) : field[q] # nanmin(field)

\* lines 177-206 and 209-270: the text and the traces of the figure
graph_output(valid, opt) ==
    [info    |-> IF opt # 0 THEN OptimalText ELSE NoValidText,
     opt_idx |-> opt,
     traces  |-> (IF \E p \in Points : valid[p]
                  THEN {"Design Space"} ELSE {})
                 \cup (IF opt # 0 THEN {"Optimal Design"} ELSE {})]

\* lines 117-297
update_graph(d, weight, constraints) ==
    graph_output(
        valid3d(d, constraints),
        opt_idx(scalar_field(
                    weight,
                    normalised(masked(d.cost, valid3d(d, constraints))),
                    normalised(masked(d.GWP, valid3d(d, constraints))))))

InitDash ==
    /\ P_vents = <<>>
    /\ vi = 1
    /\ spc = "dashboard"
    /\ err = "none"
    /\ V_in = 0
    /\ fill_ratio = 0
    /\ Qmax = [bound |-> FALSE, val |-> 0]
    /\ pair = <<0, 0>>
    /\ csv = [exists |-> FALSE, lines |-> <<>>]
    /\ result = NoResult
    /\ solver = "stalled"
    /\ tankh2 = NoTank
    /\ rs = NoSearch
    /\ Qleak = 0
    /\ lists = StartLists(NoTank)
    /\ ipc = "idle"
    /\ ret = 0
    /\ \E m1, m2, m3 \in [Points -> BOOLEAN], c, g \in [Points -> Values] :
          dash = [loaded |-> TRUE, valid_integration |-> m1,
                  valid_mass |-> m2, valid_NOx |-> m3, cost |-> c, GWP |-> g,
                  called |-> FALSE, weight |-> 50, constraints |-> Checklist,
                  out |-> graph_output([p \in Points |-> FALSE], 0)]

\* lines 111-117: Dash calls update_graph with the slider and the checklist
UpdateGraph ==
    /\ dash.loaded
    /\ \E weight \in Weights, constraints \in SUBSET Checklist :
          dash' = [dash EXCEPT !.called = TRUE, !.weight = weight,
                               !.constraints = constraints,
                               !.out = update_graph(dash, weight, constraints)]
    /\ UNCHANGED <<P_vents, vi, spc, err, V_in, fill_ratio, Qmax, pair, csv,
                   result, solver, tankh2, rs, Qleak, lists, ipc, ret>>

NextDash == UpdateGraph

SpecDash == InitDash /\ [][NextDash]_vars



(***************************************************************************)
(* Properties.                                                             *)
(***************************************************************************)
\* a step of the running maximum_Qin is an iteration of its loop
IsIteration == ipc = "loop" /\ ipc' = "loop" /\ lists'.nP = lists.nP + 1

\* the running maximum_Qin returns in this step
IsReturn == ipc = "loop" /\ ipc' = "returned"

\* the clamp branch was taken at least once in the running maximum_Qin
Clamped == lists.nP > lists.nM

\* C1: whenever compute_Qleak has a heat leak Q to return, the integrator
\* run with that Q gives a value within 0.01 h of zero, i.e. an elapsed time
\* within 0.01 h of the dormancy.  (maximum_Qin keeps its lists local, so
\* its value for a tank and a Q is the one the search recorded at the root:
\* rs.froot is the value returned by the run with Qleak = rs.root.)
C1_RoundTrip ==
    (rs.phase = "done" /\ rs.converged) => Abs(rs.froot) <= RoundTripTol

\* C2: the loop iterates if and only if the current pressure is below the
\* vent pressure: an iteration starts only from a pressure < Pvent, the
\* function returns only from a pressure >= Pvent and leaves the lists as
\* they are, and with P0 >= Pvent it returns after no iteration with
\* elapsed time 0.
C2_LoopGuard ==
    [][ /\ (IsIteration => lists.P < tankh2.Pvent)
        /\ (IsReturn => lists.P >= tankh2.Pvent /\ lists' = lists)
        /\ ((IsReturn /\ tankh2.P0 >= tankh2.Pvent)
               => lists.nP = 0 /\ lists.time = 0) ]_vars

\* C2 witness: a run that iterated and then returned at a pressure that
\* reached the vent pressure
C2_Witness ==
    ipc = "returned" /\ lists.nP > 0 /\ lists.P >= tankh2.Pvent

\* C3 as stated: the value returned is the elapsed time in hours.
C3_ElapsedHours == ipc = "returned" => ret = ToHours(lists.time)

\* C3 as the code has it: the value returned is the elapsed time in hours
\* minus the 24 h dormancy.
C3_HoursMinusDormancy ==
    ipc = "returned" => ret + DormancyUnits = ToHours(lists.time)

\* C3 witness: a run returned after time passed
C3_Witness == ipc = "returned" /\ lists.time > 0 /\ ret # 0

\* C4: until the clamp branch is first taken, vapour mass + liquid mass
\* equals the initial total mass, and the solved vapour and liquid rates
\* sum to zero.
C4_MassConserved ==
    (ipc \in {"loop", "returned"} /\ ~Clamped) =>
        /\ lists.mg + lists.ml = tankh2.mg0 + tankh2.ml0
        /\ LET d == linalg_solve(lists, tankh2, Qleak)
           IN  d.x2 + d.x3 = 0

\* C4 witness: an unclamped run in which mass has moved between the phases
C4_Witness ==
    ipc = "loop" /\ ~Clamped /\ lists.nP > 0 /\ lists.mg # tankh2.mg0

\* C5 as stated: once a step took the clamp branch, the run takes no
\* further iteration.
C5_ClampEndsRun == [][ (ipc = "loop" /\ Clamped) => ~IsIteration ]_vars

\* C5 as the code has it: an iteration whose vapour mass would be <= 0
\* sets the vapour mass to 0, extends only the pressure, temperature and
\* vapour-mass lists, leaves the elapsed time as it is and does not end the
\* run; a clamped run returns only at a pressure >= Pvent.
C5_ClampContinues ==
    [][ /\ ((IsIteration /\ NextVapour(lists, tankh2, Qleak) <= 0)
               => /\ lists'.mg = 0
                  /\ lists'.nM = lists.nM
                  /\ lists'.time = lists.time
                  /\ lists'.Ps = lists.Ps)
        /\ ((ipc = "loop" /\ Clamped /\ lists.P < tankh2.Pvent)
               => ~IsReturn) ]_vars

\* C5 witness: a run that went on iterating below the vent pressure after
\* it took the clamp branch
C5_Witness ==
    ipc = "loop" /\ lists.nP >= lists.nM + 2 /\ lists.P < tankh2.Pvent

C7_NoDefault ==
    [][ /\ (Qmax' # Qmax
              => /\ rs.phase = "done" /\ rs.converged
                 /\ Qmax' = [bound |-> TRUE, val |-> rs.root]
                 /\ err' = "none")
        /\ ((rs.phase = "fb" /\ ipc = "returned" /\ Sgn(rs.fa) * Sgn(ret) > 0)
              => err' = "ValueError" /\ spc' = "aborted" /\ Qmax' = Qmax)
        /\ ((rs.phase = "done" /\ ~rs.converged)
              => err' = "UnboundLocalError" /\ spc' = "aborted"
                 /\ Qmax' = Qmax)
        /\ spc # "aborted" ]_vars

\* C7 witness: the second vent pressure of a sweep ended in ValueError
\* while Qmax still held the value of the first
C7_Witness ==
    err = "ValueError" /\ rs.phase = "raised" /\ vi = 2 /\ Qmax.bound

\* the data rows of tank_results.csv
DataRows == {csv.lines[n] : n \in 1..Len(csv.lines)} \ {csv_header}

\* a row for vent pressure number k and materials i, j was persisted
Persisted(k, i, j) ==
    \E row \in DataRows :
        /\ row.p_vent = P_vents[k]
        /\ row.material = materials[i]
        /\ row.material2 = materials[j]

\* C8: when the sweep has ended, by finishing or by an error, every
\* combination of a vent pressure other than the one the error occurred in
\* has its row in the file (an error in one combination does not keep the
\* others from being evaluated and persisted).
C8_ErrorIsolated ==
    (spc \in {"done", "aborted"}) =>
        \A k \in 1..Len(P_vents) : \A i \in 1..n_mats : \A j \in 1..n_mats :
            (err = "none" \/ k # vi) => Persisted(k, i, j)

\* C9: a result of compute_tank_volume is never computed from a vacuum
\* gap dv <= 0: the gap in every returned tuple is strictly positive.
C9_GapPositive == spc = "called" => result.dv > 0

\* the closure of heat_influx in the call of compute_tank_volume that
\* produced result
CallContext ==
    heat_influx_closure(Tank(pair[1], pair[2], fill_ratio, V_in, P_vents[vi]),
                        result.L_in, Q_str_of(pair[1]), result.t1,
                        result.Qleak, solver)

\* C10: in every tuple heat_influx returned, Qcond + Qrad + Q_str equals
\* the allowable heat leak Q_in_max within solver tolerance; on the grid of
\* the model the tolerance is the change of the total heat flow over one
\* grid step of dv either side of the gap.
C10_HeatBalance ==
    spc = "called" =>
        Abs(result.Qcond + result.Qrad + CallContext.Q_str - result.Qleak)
            <= Abs(total_heat_influx(CallContext, result.dv + 1)
                   - total_heat_influx(CallContext, result.dv - 1))

\* sequence s is the beginning of sequence t
IsPrefix(s, t) ==
    /\ Len(s) <= Len(t)
    /\ \A n \in 1..Len(s) : t[n] = s[n]

\* file f holds the header line exactly once, as its first line
HeaderOnce(f) ==
    /\ f.lines # <<>>
    /\ f.lines[1] = csv_header
    /\ \A n \in 2..Len(f.lines) : f.lines[n] # csv_header

\* C11: every write to tank_results.csv, in the first run or a later one and
\* whatever the file was before the first write (absent, empty, holding
\* rows), keeps the lines that were there, adds the data row at the end and
\* leaves a file that holds the header line exactly once, as its first
\* line.
C11_AppendOnlyOneHeader ==
    [][ csv' # csv
           => /\ csv'.exists
              /\ IsPrefix(csv.lines, csv'.lines)
              /\ csv'.lines[Len(csv'.lines)] # csv_header
              /\ HeaderOnce(csv') ]_vars

\* lines 498-507: the position, among the data rows, at which the plots
\* read the row of vent pressure number v and material pair (i, j):
\* i + j * len(materials)**2 for pair index i and vent index j, from 1 here
RowIndex(v, i, j) ==
    ((v - 1) * n_mats * n_mats) + ((i - 1) * n_mats) + j

\* C12: a sweep that completed without error (on a file that was absent)
\* has persisted |P_vents| * |materials|^2 data rows, and the row at the
\* position of each (vent pressure, inner material, outer material)
\* combination, ordered by vent pressure, then inner, then outer material,
\* is the row of that combination: none is duplicated or omitted.
C12_OneRowEach ==
    (spc = "done" /\ err = "none") =>
        /\ Len(csv.lines) = 1 + (Len(P_vents) * n_mats * n_mats)
        /\ csv.lines[1] = csv_header
        /\ \A v \in 1..Len(P_vents) : \A i \in 1..n_mats : \A j \in 1..n_mats :
              LET row == csv.lines[1 + RowIndex(v, i, j)]
              IN  /\ row.p_vent = P_vents[v]
                  /\ row.material = materials[i]
                  /\ row.material2 = materials[j]

\* C12 witness: a sweep over two vent pressures completed with its 8 rows
C12_Witness ==
    /\ spc = "done" /\ err = "none"
    /\ Len(P_vents) = 2 /\ P_vents[1] # P_vents[2]
    /\ Len(csv.lines) = 9

\* lines 144-149: the membrane loads and the material of the inner search
\* in the call of compute_tank_volume that produced result
InnerSearch ==
    [prop      |-> mat_properties[pair[1]],
     N_theta_p |-> TDiv((MAWP + 200) * 13, 10) * R_in,
     N_phi_p   |-> TDiv(TDiv((MAWP + 200) * 13, 10) * R_in, 2)]

\* lines 226-231: the same for the search of the outer shell
OuterSearch ==
    [prop      |-> mat_properties[pair[2]],
     N_theta_p |-> P_amb * (R_in + result.t1 + result.dv + t_mli),
     N_phi_p   |-> TDiv(P_amb * (R_in + result.t1 + result.dv + t_mli), 2)]

\* the thickness of candidate number i in search a
Candidate(a, i) == netting_thickness(a.prop, a.N_theta_p, a.N_phi_p, i)

\* what the loop over the angles returns in search a
Searched(a) ==
    angle_loop(a.prop, a.N_theta_p, a.N_phi_p, 1,
               [t |-> t_min_start, alpha |-> 0])

\* the result of search a is a candidate angle with its own thickness,
\* which no other candidate undercuts
IsMinimum(a) ==
    \E i \in 1..Len(angle) :
        /\ Searched(a).alpha = angle[i]
        /\ Searched(a).t = Candidate(a, i)
        /\ \A k \in 1..Len(angle) : Searched(a).t <= Candidate(a, k)

\* the result of search a is the first candidate of minimum thickness
IsFirstMinimum(a) ==
    \E i \in 1..Len(angle) :
        /\ Searched(a).alpha = angle[i]
        /\ \A k \in 1..Len(angle) : Candidate(a, i) <= Candidate(a, k)
        /\ \A k \in 1..(i - 1) : Candidate(a, k) > Candidate(a, i)

\* search a has two or more candidates of minimum thickness
HasTie(a) ==
    \E i, k \in 1..Len(angle) :
        /\ i # k
        /\ Candidate(a, i) = Candidate(a, k)
        /\ \A n \in 1..Len(angle) : Candidate(a, i) <= Candidate(a, n)

\* C13: for a composite inner material and for a composite outer material,
\* the angle returned by the thickness search is one of the candidates
\* [0, 90, 0.1], the thickness returned is the one computed at that angle,
\* and it is <= the thickness computed at each other candidate; the angles
\* of the result are the ones the searches returned.
C13_AngleSearchMinimal ==
    spc = "called" =>
        /\ IsComposite(pair[1])
              => IsMinimum(InnerSearch)
                 /\ result.ang1_w = Searched(InnerSearch).alpha
        /\ IsComposite(pair[2])
              => IsMinimum(OuterSearch)
                 /\ result.ang2_w = Searched(OuterSearch).alpha

\* C13 witness: both shells composite, and the inner search returned a
\* candidate other than the first
C13_Witness ==
    /\ spc = "called"
    /\ IsComposite(pair[1]) /\ IsComposite(pair[2])
    /\ result.ang1_w # angle[1]

\* C14: when two or more candidates give the same minimum thickness, the
\* angle returned is that of the first of them in the order [0, 90, 0.1].
C14_FirstMinimumWins ==
    spc = "called" =>
        /\ (IsComposite(pair[1]) /\ HasTie(InnerSearch))
              => IsFirstMinimum(InnerSearch)
        /\ (IsComposite(pair[2]) /\ HasTie(OuterSearch))
              => IsFirstMinimum(OuterSearch)

\* C14 witness: an outer search with a tie at the minimum, decided for the
\* earlier candidate
C14_Witness ==
    /\ spc = "called"
    /\ IsComposite(pair[2]) /\ HasTie(OuterSearch)
    /\ result.ang2_w = Searched(OuterSearch).alpha

\* C15: maximum_Qin does not increase with the heat leak: for 0 < Q1 < Q2,
\* maximum_Qin(Q2) <= maximum_Qin(Q1).  The bracketed search calls it at
\* the lower end a, the upper end b and then at points m strictly inside
\* the current bracket, whose end values it keeps in fa and fb: every value
\* returned is compared with the values at the nearest smaller and larger
\* heat leaks evaluated before.
C15_Monotone ==
    (spc = "qleak" /\ ipc = "returned") =>
        /\ rs.phase = "fb"
              => (0 < rs.a /\ rs.a < Qleak /\ ret <= rs.fa)
        /\ rs.phase = "fm"
              => /\ 0 < rs.a /\ rs.a < Qleak /\ Qleak < rs.b
                 /\ rs.fb <= ret /\ ret <= rs.fa

\* C15 witness: a value returned for a heat leak strictly inside the
\* bracket, strictly between the values at the two ends
C15_Witness ==
    /\ spc = "qleak" /\ ipc = "returned" /\ rs.phase = "fm"
    /\ rs.a < Qleak /\ Qleak < rs.b
    /\ rs.fb < ret /\ ret < rs.fa

\* C16: maximum_Qin is deterministic and leaves the Tank alone: while it
\* runs no field of the Tank changes; every call starts from lists built
\* anew from the Tank's initial fields, whatever an earlier call left
\* behind; and two calls of compute_Qleak on the same vent pressure give
\* the same heat leak (the rows of equal vent pressure carry equal Qleak).
C16_Deterministic ==
    /\ [][ /\ ipc = "loop" => tankh2' = tankh2
           /\ (ipc # "loop" /\ ipc' = "loop")
                => /\ lists'.P = tankh2'.P0 /\ lists'.T = tankh2'.T0
                   /\ lists'.mg = tankh2'.mg0 /\ lists'.ml = tankh2'.ml0
                   /\ lists'.rhog = tankh2'.rhog0
                   /\ lists'.rhol = tankh2'.rhol0
                   /\ lists'.hg = tankh2'.hg0 /\ lists'.hl = tankh2'.hl0
                   /\ lists'.x = tankh2'.x0 /\ lists'.Ps = tankh2'.P0
                   /\ lists'.time = 0
                   /\ lists'.nP = 0 /\ lists'.nM = 0 ]_vars
    /\ [](\A n1, n2 \in 2..Len(csv.lines) :
             csv.lines[n1].p_vent = csv.lines[n2].p_vent
                => csv.lines[n1].Qleak = csv.lines[n2].Qleak)

\* C16 witness: compute_Qleak has run twice on the same vent pressure, each
\* time through several calls of maximum_Qin, and both sweeps wrote rows
C16_Witness ==
    /\ spc = "done" /\ err = "none"
    /\ Len(P_vents) = 2 /\ P_vents[1] = P_vents[2]
    /\ Len(csv.lines) = 1 + (2 * n_mats * n_mats)
    /\ rs.iter > 1

C19_SaturationT ==
    ipc \in {"loop", "returned"} => lists.T = SatT_of_P(lists.P)

\* C19 witness: after an iteration that took the clamp branch and moved
\* the pressure
C19_Witness ==
    /\ ipc = "loop" /\ Clamped
    /\ lists.P > lists.Ps
    /\ lists.T # SatT_of_P(lists.Ps)

\* C18: the total mass Mt in every tuple compute_tank_volume returns is
\* greater than the hydrogen mass.
C18_MassAboveHydrogen ==
    spc = "called" => result.Mt > mass_h2

\* C18 witness: a tuple returned for a negative vacuum gap, where the outer
\* shell is at its smallest, with the shells and the structure weighing
\* less than the hydrogen
C18_Witness ==
    /\ spc = "called"
    /\ result.dv < 0
    /\ result.Mt > mass_h2
    /\ result.Mt < 2 * mass_h2

\* C20: in a call of maximum_Qin the last quality is the last vapour mass
\* over the sum of the last vapour and liquid masses: initially and after
\* every iteration.
C20_QualityIsMassFraction ==
    ipc \in {"loop", "returned"}
       => lists.x = TDiv(lists.mg * FracScale, lists.mg + lists.ml)

\* the module's list of material properties after the pair (i, j) was
\* sized: inner_tank_thickness wrote through the inner material's list,
\* heat_influx through the outer material's
PropertiesAfter(i, j) == stored_yield(stored_yield(mat_properties, i), j)

RowClosure(r) ==
    heat_influx_closure(Tank(pair[1], pair[2], fill_ratio, V_in, P_vents[vi]),
                        r.L_in, Q_str_of(pair[1]), r.t1, Qmax.val, solver)

\* lines 371: the three masses of the tuple r
RowMass(r) == total_mass(RowClosure(r).tk, r.L_in, r.dv, r.t1, r.t2)

\* C22: for every row written, the stages ran in pipeline order.  The
\* dormancy root-finder had finished, converged, and its root was bound to
\* Qmax before the pair was sized; the vacuum gap of the row is the one
\* fsolve gives for exactly that heat leak as target; the outer thickness
\* is computed at that gap, and volume, mass, CO2 and embodied energy from
\* that gap and the two thicknesses; and the row is the last line of the
\* file after the write.
C22_PipelineOrder ==
    [][ csv' # csv
          => /\ spc = "pairs"
             /\ rs.phase = "done" /\ rs.converged
             /\ Qmax.bound /\ Qmax.val = rs.root
             /\ result'.Qleak = Qmax.val
             /\ result'.dv = fsolve(RowClosure(result'))
             /\ result'.t2 >= outer_thickness(RowClosure(result'), result'.dv).t
             /\ result'.t2 \in {outer_thickness(RowClosure(result'), result'.dv).t,
                                t_limit}
             /\ result'.ang2_w
                   = outer_thickness(RowClosure(result'), result'.dv).alpha
             /\ result'.Vt = total_volume(result'.L_in, result'.dv,
                                          result'.t1, result'.t2)
             /\ result'.Mt = RowMass(result').inner + RowMass(result').outer
                               + RowMass(result').mli + mass_h2
                               + str_mass_of(pair[1])
             /\ result'.co2_kg = kg_co2(RowClosure(result').tk, RowMass(result'),
                                        str_mass_of(pair[1]))
             /\ result'.emb_energy
                   = embodied_energy(RowClosure(result').tk, RowMass(result'),
                                     str_mass_of(pair[1]))
             /\ csv'.lines[Len(csv'.lines)] = csv_row(pair[1], pair[2], result')
        ]_vars

\* C22 witness: a row was written for a heat leak that the root-finder
\* found strictly inside its bracket, after narrowing it
C22_Witness ==
    /\ Len(csv.lines) >= 2
    /\ rs.phase = "done" /\ rs.iter > 1
    /\ Q_leak_min < rs.root /\ rs.root < Q_leak_max
    /\ csv.lines[Len(csv.lines)].Qleak = rs.root
    /\ csv.lines[Len(csv.lines)].dv = result.dv

\* C23: at every point of a call of maximum_Qin the elapsed time is dt
\* (250 s) times the number of iterations that took the branch advancing
\* the masses; an iteration that clamps the vapour mass appends a pressure
\* and a temperature and leaves the time alone, so that once the clamp was
\* taken the time is less than dt times the number of iterations made.
C23_ElapsedTime ==
    /\ [](ipc \in {"loop", "returned"}
            => /\ lists.time = dt * lists.nM
               /\ lists.time <= dt * lists.nP
               /\ Clamped => lists.time < dt * lists.nP)
    /\ [][ (IsIteration /\ lists'.nM = lists.nM)
             => /\ lists'.time = lists.time
                /\ lists'.P # lists.P
                /\ lists'.T = SatT_of_P(lists'.P) ]_vars

\* C23 witness: a call that returned after iterations of both kinds
C23_Witness ==
    /\ ipc = "returned"
    /\ lists.nM >= 1 /\ lists.nP >= lists.nM + 2
    /\ lists.time = dt * lists.nM

\* the lines of the file that the sweep has written for the vent pressure
\* it is at (the file was absent when the sweep began)
RowsOfVent ==
    {n \in 2..Len(csv.lines) : n > 1 + ((vi - 1) * n_mats * n_mats)}

\* C24: the allowable heat leak is computed once per vent pressure, on a
\* Tank with materials[0] as both shells, before any pair of that vent
\* pressure is sized: Qmax is bound only when compute_Qleak returns, which
\* starts the pair loops at their first pair; while the pairs are sized
\* neither Qmax nor the finished search changes; and every row written for
\* the vent pressure carries that Qmax as its Qleak, whatever its
\* materials.
C24_OneLeakPerVent ==
    /\ [][ /\ Qmax' # Qmax
                => /\ spc = "qleak" /\ spc' = "pairs"
                   /\ pair' = <<1, 1>>
                   /\ RowsOfVent = {}
                   /\ tankh2.material = 1 /\ tankh2.material2 = 1
                   /\ tankh2.Pvent = P_vents[vi]
                   /\ Qmax'.val = rs.root
           /\ spc = "pairs" => (Qmax' = Qmax /\ rs' = rs) ]_vars
    /\ [](spc = "pairs"
            => \A n \in RowsOfVent :
                  /\ csv.lines[n].p_vent = P_vents[vi]
                  /\ csv.lines[n].Qleak = Qmax.val)

\* C24 witness: the rows of a vent pressure with different inner and outer
\* materials, all with the heat leak of the vent pressure
C24_Witness ==
    /\ spc = "pairs" /\ vi = 2
    /\ \E n1, n2 \in RowsOfVent :
          /\ csv.lines[n1].material # csv.lines[n2].material
          /\ csv.lines[n1].material2 # csv.lines[n2].material2
          /\ csv.lines[n1].Qleak = csv.lines[n2].Qleak
    /\ csv.lines[2].Qleak # Qmax.val

\* C25: in every tuple compute_tank_volume returns, t1 and t2 are at least
\* t_limit.  t1 is the inner thickness or the floor, whichever is larger,
\* and the vacuum gap was solved with that t1; t2 is the outer thickness at
\* the solved gap or the floor, whichever is larger, and volume, masses,
\* CO2 and embodied energy are those of that t2.
C25_ThicknessFloor ==
    spc = "called" =>
        /\ result.t1 >= t_limit /\ result.t2 >= t_limit
        /\ result.t1 >= inner_tank_thickness(CallContext.tk).t
        /\ result.t1 \in {inner_tank_thickness(CallContext.tk).t, t_limit}
        /\ result.dv = fsolve(CallContext)
        /\ result.t2 >= outer_thickness(CallContext, result.dv).t
        /\ result.t2 \in {outer_thickness(CallContext, result.dv).t, t_limit}
        /\ result.Vt = total_volume(result.L_in, result.dv,
                                    result.t1, result.t2)
        /\ result.Mt = total_mass(CallContext.tk, result.L_in, result.dv,
                                  result.t1, result.t2).inner
                       + total_mass(CallContext.tk, result.L_in, result.dv,
                                    result.t1, result.t2).outer
                       + total_mass(CallContext.tk, result.L_in, result.dv,
                                    result.t1, result.t2).mli
                       + mass_h2 + str_mass_of(pair[1])

\* C25 witness: a tuple whose outer thickness was raised to the floor
C25_Witness ==
    /\ spc = "called"
    /\ outer_thickness(CallContext, result.dv).t < t_limit
    /\ result.t2 = t_limit

\* C26: when no design point satisfies all selected constraints,
\* update_graph returns the text 'No valid designs found with current
\* constraints.' and adds no optimal-design marker; and whenever it reports
\* an optimal design, the point reported satisfies every selected
\* constraint.
C26_NoValidDesigns ==
    (dash.loaded /\ dash.called) =>
        /\ (\A p \in Points : ~valid3d(dash, dash.constraints)[p])
              => /\ dash.out.info = NoValidText
                 /\ "Optimal Design" \notin dash.out.traces
        /\ dash.out.opt_idx # 0
              => valid3d(dash, dash.constraints)[dash.out.opt_idx]

====
